---- MODULE Spec2Model ----
(***************************************************************************)
(* A model of src/main.py (API de Receitas): the single-slot context       *)
(* mailbox (CONTEXTO_ATUAL with /contexto/enviar and /contexto/pegar) run  *)
(* by concurrently scheduled request threads, and the catalog operations   *)
(* (/tags, /receitas/ingredientes, /receitas/macros) over RECEITAS.        *)
(***************************************************************************)
EXTENDS Integers, Sequences, FiniteSets, TLC

VARIABLES
    CONTEXTO_ATUAL,  \* the global slot: a reference to a Python object
    RECEITAS,        \* the catalog loaded at start-up, never written again
    pc,              \* per request thread: the handler line it stands at
    rid,             \* per request thread: the request it is serving
    local_data,      \* per request thread: enviar_contexto's local `data`
    local_ctx,       \* per request thread: pegar_contexto's local `ctx`
    log,             \* per request, in arrival order: what it was and did
    resp             \* the last response of a catalog operation

vars == <<CONTEXTO_ATUAL, RECEITAS, pc, rid, local_data, local_ctx, log, resp>>

mailbox_vars == <<CONTEXTO_ATUAL, pc, rid, local_data, local_ctx, log>>

----------------------------------------------------------------------------
(* Bounds of the model *)

\* request threads the server runs at once
NThreads == 2
\* mailbox requests served in one run
MaxReq == 4

Threads == 1..NThreads

\* requests executed one after another: a single thread serves them all
ThreadsSeq == {1}

----------------------------------------------------------------------------
(* JSON documents and Python objects *)

\* A parsed JSON document: its type and its content as a tuple of numbers
\* (a bool or a number is a 1-tuple, a string, array or object the tuple of
\* its items).
JNull == [t |-> "null", v |-> <<>>]
JFalse == [t |-> "bool", v |-> <<0>>]
JZero == [t |-> "number", v |-> <<0>>]
JEmptyObj == [t |-> "object", v |-> <<>>]
JObjX == [t |-> "object", v |-> <<1>>]
JObjY == [t |-> "object", v |-> <<2>>]

\* a request without a body
NoBody == [t |-> "missing", v |-> <<>>]

\* the bodies a client posts to /contexto/enviar
Bodies == {NoBody, JNull, JFalse, JZero, JEmptyObj, JObjX, JObjY}

\* A reference to a Python object: its identity and its value. The object a
\* request parses from its body has the request's number as its identity;
\* None is the one object of identity 0.
Ref(o, d) == [obj |-> o, val |-> d]

PyNone == Ref(0, JNull)

IsNone(r) == r.obj = 0

\* request.get_json(): None for a missing body or the document null, else
\* a fresh object holding the parsed document
get_json(r, body) ==
    IF body.t \in {"missing", "null"} THEN PyNone ELSE Ref(r, body)

\* Python's truth value of an object, as `not data` takes it
Truthy(d) ==
    CASE d.val.t = "null" -> FALSE
      [] d.val.t \in {"bool", "number"} -> d.val.v[1] # 0
      [] OTHER -> Len(d.val.v) > 0

\* no response is on its way to a client
NoResp == [op |-> "none"]

----------------------------------------------------------------------------
(* The request log *)

\* An entry is written when the request's handler starts: `before` is the
\* slot as the handler found it, status 0 says it has not answered yet,
\* `dados` is the data of its answer, `wrote` whether its assignment to the
\* slot has run and `replaced` what that assignment replaced.
NewEntry(op, body) ==
    [op |-> op, body |-> body, before |-> CONTEXTO_ATUAL, status |-> 0,
     dados |-> PyNone, wrote |-> FALSE, replaced |-> PyNone]

Answer(r, status, dados) ==
    [log EXCEPT ![r].status = status, ![r].dados = dados]

Wrote(r, old) ==
    [log EXCEPT ![r].wrote = TRUE, ![r].replaced = old]

----------------------------------------------------------------------------
(* POST /contexto/enviar *)

\* the assignment to the slot placed before the check of `data`
enviar_store_before_check(t) ==
    /\ pc[t] = "idle"
    /\ Len(log) < MaxReq
    /\ \E body \in Bodies :
        LET r == Len(log) + 1
            data == get_json(r, body)
            entry == NewEntry("enviar", body)
        IN  /\ CONTEXTO_ATUAL' = data
            /\ IF ~Truthy(data)
               THEN /\ log' = Append(log, [entry EXCEPT !.status = 400])
                    /\ UNCHANGED <<pc, rid, local_data>>
               ELSE /\ log' = Append(log, entry)
                    /\ pc' = [pc EXCEPT ![t] = "enviar_store"]
                    /\ rid' = [rid EXCEPT ![t] = r]
                    /\ local_data' = [local_data EXCEPT ![t] = data]
    /\ UNCHANGED <<RECEITAS, local_ctx, resp>>

\* lines 103-105: data = request.get_json(); 400 when `not data`
enviar_get_json(t) ==
    /\ pc[t] = "idle"
    /\ Len(log) < MaxReq
    /\ \E body \in Bodies :
        LET r == Len(log) + 1
            data == get_json(r, body)
            entry == NewEntry("enviar", body)
        IN  IF ~Truthy(data)
            THEN /\ log' = Append(log, [entry EXCEPT !.status = 400])
                 /\ UNCHANGED <<pc, rid, local_data>>
            ELSE /\ log' = Append(log, entry)
                 /\ pc' = [pc EXCEPT ![t] = "enviar_store"]
                 /\ rid' = [rid EXCEPT ![t] = r]
                 /\ local_data' = [local_data EXCEPT ![t] = data]
    /\ UNCHANGED <<CONTEXTO_ATUAL, RECEITAS, local_ctx, resp>>

\* line 107: CONTEXTO_ATUAL = data
enviar_store(t) ==
    /\ pc[t] = "enviar_store"
    /\ CONTEXTO_ATUAL' = local_data[t]
    /\ log' = Wrote(rid[t], CONTEXTO_ATUAL)
    /\ pc' = [pc EXCEPT ![t] = "enviar_return"]
    /\ UNCHANGED <<RECEITAS, rid, local_data, local_ctx, resp>>

\* lines 108-112: the success response
enviar_return(t) ==
    /\ pc[t] = "enviar_return"
    /\ log' = Answer(rid[t], 200, PyNone)
    /\ pc' = [pc EXCEPT ![t] = "idle"]
    /\ rid' = [rid EXCEPT ![t] = 0]
    /\ local_data' = [local_data EXCEPT ![t] = PyNone]
    /\ UNCHANGED <<CONTEXTO_ATUAL, RECEITAS, local_ctx, resp>>

----------------------------------------------------------------------------
(* GET /contexto/pegar *)

\* lines 119-120: 404 when CONTEXTO_ATUAL is None
pegar_check(t) ==
    /\ pc[t] = "idle"
    /\ Len(log) < MaxReq
    /\ LET r == Len(log) + 1
           entry == NewEntry("pegar", NoBody)
       IN  IF IsNone(CONTEXTO_ATUAL)
           THEN /\ log' = Append(log, [entry EXCEPT !.status = 404])
                /\ UNCHANGED <<pc, rid>>
           ELSE /\ log' = Append(log, entry)
                /\ pc' = [pc EXCEPT ![t] = "pegar_read"]
                /\ rid' = [rid EXCEPT ![t] = r]
    /\ UNCHANGED <<CONTEXTO_ATUAL, RECEITAS, local_data, local_ctx, resp>>

\* line 122: ctx = CONTEXTO_ATUAL
pegar_read(t) ==
    /\ pc[t] = "pegar_read"
    /\ local_ctx' = [local_ctx EXCEPT ![t] = CONTEXTO_ATUAL]
    /\ pc' = [pc EXCEPT ![t] = "pegar_clear"]
    /\ UNCHANGED <<CONTEXTO_ATUAL, RECEITAS, rid, local_data, log, resp>>

\* line 123: CONTEXTO_ATUAL = None
pegar_clear(t) ==
    /\ pc[t] = "pegar_clear"
    /\ CONTEXTO_ATUAL' = PyNone
    /\ log' = Wrote(rid[t], CONTEXTO_ATUAL)
    /\ pc' = [pc EXCEPT ![t] = "pegar_return"]
    /\ UNCHANGED <<RECEITAS, rid, local_data, local_ctx, resp>>

\* lines 124-128: the success response carrying ctx
pegar_return(t) ==
    /\ pc[t] = "pegar_return"
    /\ log' = Answer(rid[t], 200, local_ctx[t])
    /\ pc' = [pc EXCEPT ![t] = "idle"]
    /\ rid' = [rid EXCEPT ![t] = 0]
    /\ local_ctx' = [local_ctx EXCEPT ![t] = PyNone]
    /\ UNCHANGED <<CONTEXTO_ATUAL, RECEITAS, local_data, resp>>

----------------------------------------------------------------------------
(* The mailbox under concurrently served requests, and served in turn *)

InitMailbox ==
    /\ CONTEXTO_ATUAL = PyNone
    /\ RECEITAS = <<>>
    /\ pc = [t \in Threads |-> "idle"]
    /\ rid = [t \in Threads |-> 0]
    /\ local_data = [t \in Threads |-> PyNone]
    /\ local_ctx = [t \in Threads |-> PyNone]
    /\ log = <<>>
    /\ resp = NoResp

Next ==
    \/ \E t \in Threads : enviar_get_json(t)
    \/ \E t \in Threads : enviar_store(t)
    \/ \E t \in Threads : enviar_return(t)
    \/ \E t \in Threads : pegar_check(t)
    \/ \E t \in Threads : pegar_read(t)
    \/ \E t \in Threads : pegar_clear(t)
    \/ \E t \in Threads : pegar_return(t)

Spec == InitMailbox /\ [][Next]_vars

NextSeq ==
    \/ \E t \in ThreadsSeq : enviar_get_json(t)
    \/ \E t \in ThreadsSeq : enviar_store(t)
    \/ \E t \in ThreadsSeq : enviar_return(t)
    \/ \E t \in ThreadsSeq : pegar_check(t)
    \/ \E t \in ThreadsSeq : pegar_read(t)
    \/ \E t \in ThreadsSeq : pegar_clear(t)
    \/ \E t \in ThreadsSeq : pegar_return(t)

SpecSeq == InitMailbox /\ [][NextSeq]_vars

----------------------------------------------------------------------------
(* The catalog: strings, numbers and records *)

\* catalogs hold at most this many recipes
MaxCatalog == 2
\* a request names at most this many ids
MaxIds == 3

\* A string is the tuple of its code points; Python orders strings by the
\* first code point that differs, a proper prefix before the longer string.
RECURSIVE StrLess(_, _)
StrLess(a, b) ==
    IF a = <<>> THEN b # <<>>
    ELSE IF b = <<>> THEN FALSE
    ELSE IF a[1] # b[1] THEN a[1] < b[1]
    ELSE StrLess(Tail(a), Tail(b))

\* sorted(...) of a set of strings
RECURSIVE sorted(_)
sorted(S) ==
    IF S = {} THEN <<>>
    ELSE LET m == CHOOSE x \in S : \A y \in S \ {x} : StrLess(x, y)
         IN  <<m>> \o sorted(S \ {m})

\* the literal 'Outros'
Outros == <<79, 117, 116, 114, 111, 115>>

Doce == <<68>>
Salgado == <<83>>
Leite == <<76>>
Lei == <<76, 101>>
Acucar == <<65>>
Carbo == <<67>>
Proteina == <<80>>

\* None where a string is expected: it equals no string
PyNoneStr == <<-1>>

\* dict.get(key, default)
get(d, key, default) == IF key \in DOMAIN d THEN d[key] ELSE default

\* A quantity is a float; the model counts it in thousandths. The catalog's
\* quantities are even thousandths, so no sum is half a hundredth and
\* round(x, 2) is the nearest hundredth.
round2(x) == ((x + 5) \div 10) * 10

Ing(nome, qtd) == [NomeIngrediente |-> nome, Quantidade |-> qtd]

Macro(tipo, valor) == [Tipo |-> tipo, Valor |-> valor]

\* The recipes a catalog file may hold; a key a record lacks is a key the
\* file left out.
Receita1 ==
    [IdReceita |-> 1, NomeReceita |-> <<66>>, Tag |-> Doce,
     CaloriasTotais |-> 120004,
     Ingredientes |-> <<Ing(Leite, 504)>>,
     Macronutrientes |-> <<Macro(Proteina, 3004)>>]

Receita2 ==
    [IdReceita |-> 2, NomeReceita |-> <<80>>,
     CaloriasTotais |-> 250000,
     Ingredientes |-> <<Ing(Leite, 504), Ing(Acucar, 1000), Ing(Lei, 2)>>,
     Macronutrientes |-> <<Macro(Carbo, 1500), Macro(Proteina, 6)>>]

Receita3 ==
    [IdReceita |-> 3, NomeReceita |-> <<80, 97>>, Tag |-> Outros]

Receita4 ==
    [IdReceita |-> 4, NomeReceita |-> <<84>>, Tag |-> Salgado,
     CaloriasTotais |-> 0,
     Ingredientes |-> <<Ing(Acucar, 6), Ing(Acucar, 6)>>,
     Macronutrientes |-> <<>>]

Pool == {Receita1, Receita2, Receita3, Receita4}

Range(f) == {f[k] : k \in DOMAIN f}

SeqsUpTo(S, n) == UNION {[1..k -> S] : k \in 0..n}

\* the catalogs: up to MaxCatalog recipes of the pool, each id once
Catalogs ==
    {c \in SeqsUpTo(Pool, MaxCatalog) : Cardinality(Range(c)) = Len(c)}

----------------------------------------------------------------------------
(* Helper functions (lines 37-84) *)

NoReceita == [None |-> TRUE]

\* the truth value of what buscar_receita_por_id returned
TruthyReceita(r) == r # NoReceita /\ DOMAIN r # {}

RECURSIVE buscar_from(_, _)
buscar_from(k, receita_id) ==
    IF k > Len(RECEITAS) THEN NoReceita
    ELSE IF RECEITAS[k].IdReceita = receita_id THEN RECEITAS[k]
    ELSE buscar_from(k + 1, receita_id)

\* a scan that returns the last recipe where it should return None
buscar_falls_through(receita_id) ==
    LET r == buscar_from(1, receita_id)
    IN  IF r = NoReceita /\ RECEITAS # <<>> THEN RECEITAS[Len(RECEITAS)] ELSE r

\* the first recipe with the id, or None
buscar_receita_por_id(receita_id) == buscar_from(1, receita_id)

\* `=` where the code has `+=`
add_to_overwrite(acc, nome, qtd) ==
    [n \in DOMAIN acc \cup {nome} |-> IF n = nome THEN qtd ELSE acc[n]]

\* ingredientes_somados[nome] += qtd on a defaultdict(float)
add_to(acc, nome, qtd) ==
    IF nome \in DOMAIN acc
    THEN [acc EXCEPT ![nome] = @ + qtd]
    ELSE [n \in DOMAIN acc \cup {nome} |-> IF n = nome THEN qtd ELSE acc[n]]

EmptyDict == [n \in {} |-> 0]

RECURSIVE soma_ings(_, _)
soma_ings(ings, acc) ==
    IF ings = <<>> THEN acc
    ELSE soma_ings(Tail(ings),
                   add_to(acc, ings[1].NomeIngrediente, ings[1].Quantidade))

RECURSIVE soma_ings_receitas(_, _)
soma_ings_receitas(lista, acc) ==
    IF lista = <<>> THEN acc
    ELSE soma_ings_receitas(Tail(lista),
             soma_ings(get(lista[1], "Ingredientes", <<>>), acc))

somar_ingredientes(lista_receitas) ==
    LET acc == soma_ings_receitas(lista_receitas, EmptyDict)
        nomes == sorted(DOMAIN acc)
    IN  [k \in 1..Len(nomes) |->
            [NomeIngrediente |-> nomes[k],
             QuantidadeTotal |-> round2(acc[nomes[k]])]]

RECURSIVE soma_macros(_, _)
soma_macros(macros, acc) ==
    IF macros = <<>> THEN acc
    ELSE soma_macros(Tail(macros),
                     add_to(acc, macros[1].Tipo, macros[1].Valor))

RECURSIVE soma_macros_receitas(_, _)
soma_macros_receitas(lista, acc) ==
    IF lista = <<>> THEN acc
    ELSE soma_macros_receitas(Tail(lista),
             soma_macros(get(lista[1], "Macronutrientes", <<>>), acc))

RECURSIVE soma_calorias(_)
soma_calorias(lista) ==
    IF lista = <<>> THEN 0
    ELSE get(lista[1], "CaloriasTotais", 0) + soma_calorias(Tail(lista))

somar_macros(lista_receitas) ==
    LET acc == soma_macros_receitas(lista_receitas, EmptyDict)
        tipos == sorted(DOMAIN acc)
    IN  [CaloriasTotais |-> round2(soma_calorias(lista_receitas)),
         Macronutrientes |->
            [k \in 1..Len(tipos) |->
                [Tipo |-> tipos[k], ValorTotal |-> round2(acc[tipos[k]])]]]

obter_tags_unicas ==
    sorted({get(RECEITAS[k], "Tag", Outros) : k \in DOMAIN RECEITAS})

----------------------------------------------------------------------------
(* GET /tags *)

listar_tags ==
    LET tags == obter_tags_unicas
        contagem ==
            [tag \in Range(tags) |->
                Cardinality({k \in DOMAIN RECEITAS :
                    get(RECEITAS[k], "Tag", PyNoneStr) = tag})]
    IN  /\ resp = NoResp
        /\ resp' = [op |-> "tags", status |-> 200,
                    body |-> [tags |-> tags, contagem_por_tag |-> contagem]]
        /\ UNCHANGED <<RECEITAS, mailbox_vars>>

----------------------------------------------------------------------------
(* POST /receitas/ingredientes and POST /receitas/macros *)

\* request.get_json() of these requests: None, or the posted object
PyNoneDict == [None |-> TRUE]

\* the ids a request names: those of the pool and 9, which no recipe has
IdLists == SeqsUpTo({1, 2, 3, 4, 9}, MaxIds)

Datas ==
    {PyNoneDict, EmptyDict, [outro |-> <<1>>]} \cup {[ids |-> l] : l \in IdLists}

\* `not data`
NotData(data) == data = PyNoneDict \/ DOMAIN data = {}

\* [r for r in receitas_encontradas if r]
RECURSIVE filtra(_)
filtra(rs) ==
    IF rs = <<>> THEN <<>>
    ELSE IF TruthyReceita(rs[1]) THEN <<rs[1]>> \o filtra(Tail(rs))
    ELSE filtra(Tail(rs))

\* lines 259-261
encontradas(ids) ==
    filtra([k \in 1..Len(ids) |-> buscar_receita_por_id(ids[k])])

nomes_de(rs) == [k \in 1..Len(rs) |-> rs[k].NomeReceita]

ingredientes_multiplas_receitas ==
    /\ resp = NoResp
    /\ \E data \in Datas :
        resp' =
            IF NotData(data) \/ "ids" \notin DOMAIN data
            THEN [op |-> "ingredientes", data |-> data, status |-> 400,
                  body |-> [erro |-> "Body deve conter ids"]]
            ELSE LET ids == data.ids
                     receitas_encontradas == encontradas(ids)
                 IN  IF receitas_encontradas = <<>>
                     THEN [op |-> "ingredientes", data |-> data,
                           status |-> 404,
                           body |-> [erro |-> "Nenhuma receita encontrada"]]
                     ELSE [op |-> "ingredientes", data |-> data,
                           status |-> 200,
                           receitas_encontradas |-> receitas_encontradas,
                           body |->
                             [receitas_ids |-> ids,
                              receitas_nomes |-> nomes_de(receitas_encontradas),
                              total_receitas |-> Len(receitas_encontradas),
                              ingredientes_somados |->
                                somar_ingredientes(receitas_encontradas)]]
    /\ UNCHANGED <<RECEITAS, mailbox_vars>>

macros_multiplas_receitas ==
    /\ resp = NoResp
    /\ \E data \in Datas :
        resp' =
            IF NotData(data) \/ "ids" \notin DOMAIN data
            THEN [op |-> "macros", data |-> data, status |-> 400,
                  body |-> [erro |-> "Body deve conter ids"]]
            ELSE LET ids == data.ids
                     receitas_encontradas == encontradas(ids)
                 IN  IF receitas_encontradas = <<>>
                     THEN [op |-> "macros", data |-> data, status |-> 404,
                           body |-> [erro |-> "Nenhuma receita encontrada"]]
                     ELSE [op |-> "macros", data |-> data, status |-> 200,
                           receitas_encontradas |-> receitas_encontradas,
                           body |->
                             [receitas_ids |-> ids,
                              receitas_nomes |-> nomes_de(receitas_encontradas),
                              total_receitas |-> Len(receitas_encontradas),
                              resultados |-> somar_macros(receitas_encontradas)]]
    /\ UNCHANGED <<RECEITAS, mailbox_vars>>

----------------------------------------------------------------------------
(* The catalog operations over every catalog *)

\* the server hands the response to the client and takes the next request
run ==
    /\ resp # NoResp
    /\ resp' = NoResp
    /\ UNCHANGED <<RECEITAS, mailbox_vars>>

InitCatalog ==
    /\ RECEITAS \in Catalogs
    /\ CONTEXTO_ATUAL = PyNone
    /\ pc = [t \in Threads |-> "idle"]
    /\ rid = [t \in Threads |-> 0]
    /\ local_data = [t \in Threads |-> PyNone]
    /\ local_ctx = [t \in Threads |-> PyNone]
    /\ log = <<>>
    /\ resp = NoResp

NextCatalog ==
    \/ listar_tags
    \/ ingredientes_multiplas_receitas
    \/ macros_multiplas_receitas
    \/ run

SpecCatalog == InitCatalog /\ [][NextCatalog]_vars

----------------------------------------------------------------------------
(* Properties of the mailbox *)

Idle == \A t \in Threads : pc[t] = "idle"

Reqs == DOMAIN log

Answered(i) == log[i].status # 0

IsSend(i) == log[i].op = "enviar"

IsTake(i) == log[i].op = "pegar"

\* the last request has answered and no handler is running
LastAnswered(i) == Len(log) = i /\ Idle

\* a take that answered 200
TookOk(i) == IsTake(i) /\ log[i].status = 200

\* A body that carries a context: a JSON document that is supplied, is not
\* null and is not an empty container.
IsContextBlob(body) ==
    /\ body.t \notin {"missing", "null"}
    /\ body.t \in {"string", "array", "object"} => Len(body.v) > 0

\* a missing body or an empty one
IsMissingOrEmpty(body) ==
    \/ body.t = "missing"
    \/ body.t \in {"string", "array", "object"} /\ Len(body.v) = 0

\* C1: a value stored by one send is returned by at most one take: no two
\* takes succeed with the object of the same send.
C1_AtMostOneTake ==
    \A i, j \in Reqs :
        (i # j /\ TookOk(i) /\ TookOk(j) /\ ~IsNone(log[i].dados))
            => log[i].dados.obj # log[j].dados.obj

\* C9: every take that answers 200 returns the object some send has stored,
\* never None.
C9_TakeReturnsStored ==
    \A i \in Reqs :
        TookOk(i) =>
            /\ ~IsNone(log[i].dados)
            /\ \E j \in Reqs :
                /\ IsSend(j) /\ log[j].wrote
                /\ log[i].dados = Ref(j, log[j].body)

\* C10: once no handler is running, the object of every send that answered
\* 200 is still in the slot, or was returned by a take, or was replaced by
\* the assignment of another send; and a take that answered 200 cleared
\* the very object it returned.
C10_NoLostValue ==
    /\ Idle =>
        \A i \in Reqs :
            (IsSend(i) /\ log[i].status = 200) =>
                \/ CONTEXTO_ATUAL.obj = i
                \/ \E j \in Reqs : TookOk(j) /\ log[j].dados.obj = i
                \/ \E j \in Reqs :
                    IsSend(j) /\ log[j].wrote /\ log[j].replaced.obj = i
    /\ \A j \in Reqs : TookOk(j) => log[j].replaced = log[j].dados

\* C2: served in turn, send(X) then take answers 200 with exactly X and
\* leaves the slot empty, and a take right after that answers 404 and
\* leaves the slot empty. X ranges over the context blobs.
C2_RoundTrip ==
    \A i \in Reqs :
        (/\ IsSend(i) /\ IsContextBlob(log[i].body)
         /\ i + 1 \in Reqs /\ IsTake(i + 1) /\ Answered(i + 1)) =>
            /\ log[i + 1].status = 200
            /\ log[i + 1].dados = Ref(i, log[i].body)
            /\ LastAnswered(i + 1) => IsNone(CONTEXTO_ATUAL)
            /\ (i + 2 \in Reqs /\ IsTake(i + 2) /\ Answered(i + 2)) =>
                /\ log[i + 2].status = 404
                /\ LastAnswered(i + 2) => IsNone(CONTEXTO_ATUAL)

\* C3: served in turn, send(X); send(Y); take answers 200 with Y, and no
\* take after it returns X unless a send came in between. X and Y range
\* over the context blobs.
C3_Overwrite ==
    \A i \in Reqs :
        (/\ IsSend(i) /\ IsContextBlob(log[i].body)
         /\ i + 1 \in Reqs /\ IsSend(i + 1) /\ IsContextBlob(log[i + 1].body)
         /\ i + 2 \in Reqs /\ IsTake(i + 2) /\ Answered(i + 2)) =>
            /\ log[i + 2].status = 200
            /\ log[i + 2].dados = Ref(i + 1, log[i + 1].body)
            /\ \A k \in Reqs :
                (k > i + 2 /\ TookOk(k) /\ \A m \in (i + 3)..(k - 1) : IsTake(m))
                    => log[k].dados.obj # i

\* C4: served in turn, a send of any context blob answers 200, whatever
\* the slot held before, and the slot then holds exactly that blob.
C4_SendAlwaysSucceeds ==
    \A i \in Reqs :
        (IsSend(i) /\ IsContextBlob(log[i].body) /\ Answered(i)) =>
            /\ log[i].status = 200
            /\ LastAnswered(i) => CONTEXTO_ATUAL = Ref(i, log[i].body)

\* C5: served in turn, a send with a missing or empty body answers 400 and
\* leaves the slot as it found it; a take right after it returns the value
\* that was pending before the rejected send (404 if none was).
C5_RejectedSendKeepsSlot ==
    \A i \in Reqs :
        (IsSend(i) /\ IsMissingOrEmpty(log[i].body)) =>
            /\ log[i].status = 400
            /\ ~log[i].wrote
            /\ LastAnswered(i) => CONTEXTO_ATUAL = log[i].before
            /\ (i + 1 \in Reqs /\ IsTake(i + 1) /\ Answered(i + 1)) =>
                IF IsNone(log[i].before)
                THEN log[i + 1].status = 404
                ELSE /\ log[i + 1].status = 200
                     /\ log[i + 1].dados = log[i].before

\* a pending value survived a rejected send and the next take returned it
C5_Witness ==
    \E i \in Reqs :
        /\ IsSend(i) /\ IsMissingOrEmpty(log[i].body) /\ log[i].status = 400
        /\ ~IsNone(log[i].before)
        /\ i + 1 \in Reqs /\ TookOk(i + 1)
        /\ log[i + 1].dados = log[i].before

----------------------------------------------------------------------------
(* Properties of the catalog operations *)

RECURSIVE SumOf(_, _)
SumOf(f, S) ==
    IF S = {} THEN 0
    ELSE LET x == CHOOSE y \in S : TRUE IN f[x] + SumOf(f, S \ {x})

\* C6: the count /tags reports for each tag is the number of recipes whose
\* tag, 'Outros' when the recipe has none, is that tag; the counts add up
\* to the size of the catalog.
C6_TagCounts ==
    resp.op = "tags" =>
        LET contagem == resp.body.contagem_por_tag
        IN  /\ \A tag \in DOMAIN contagem :
                contagem[tag] =
                    Cardinality({k \in DOMAIN RECEITAS :
                        get(RECEITAS[k], "Tag", Outros) = tag})
            /\ SumOf(contagem, DOMAIN contagem) = Len(RECEITAS)

IsAggregation == resp.op \in {"ingredientes", "macros"}

HasIds(data) == data # PyNoneDict /\ "ids" \in DOMAIN data

Known(id) == \E k \in DOMAIN RECEITAS : RECEITAS[k].IdReceita = id

\* the ids that name a recipe of the catalog, each replaced by that recipe
Resolved(ids) ==
    LET known == SelectSeq(ids, Known)
    IN  [k \in 1..Len(known) |->
            CHOOSE r \in Range(RECEITAS) : r.IdReceita = known[k]]

\* the aggregate of the response
Aggregate ==
    IF resp.op = "ingredientes" THEN resp.body.ingredientes_somados
    ELSE resp.body.resultados

\* the aggregate the operation owes for a list of recipes
AggregateOf(rs) ==
    IF resp.op = "ingredientes" THEN somar_ingredientes(rs)
    ELSE somar_macros(rs)

\* an aggregate with no entry, or with nothing but zero totals
EmptyOrZero ==
    IF resp.op = "ingredientes"
    THEN \A k \in DOMAIN Aggregate : Aggregate[k].QuantidadeTotal = 0
    ELSE /\ Aggregate.CaloriasTotais = 0
         /\ \A k \in DOMAIN Aggregate.Macronutrientes :
                Aggregate.Macronutrientes[k].ValorTotal = 0

\* C7 as amended: a body without ids answers 400; with ids, the answer is
\* 404 exactly when no id names a recipe of the catalog, and otherwise 200
\* with the aggregate of exactly the recipes the ids name, unknown ids
\* dropped, of which there is at least one.
C7_AggregationErrors ==
    IsAggregation =>
        IF ~HasIds(resp.data) THEN resp.status = 400
        ELSE LET want == Resolved(resp.data.ids)
             IN  /\ resp.status \in {200, 404}
                 /\ resp.status = 404 <=> want = <<>>
                 /\ resp.status = 200 =>
                     /\ resp.receitas_encontradas = want
                     /\ resp.body.total_receitas = Len(want)
                     /\ Len(want) >= 1
                     /\ Aggregate = AggregateOf(want)

\* C7: the same, and no answer of 200 carries an empty or zero aggregate.
C7_NeverEmptyAggregate ==
    /\ C7_AggregationErrors
    /\ (IsAggregation /\ resp.status = 200) => ~EmptyOrZero

\* an answer of 200 that dropped an unknown id and carries an empty aggregate
C7_Witness ==
    /\ IsAggregation /\ resp.status = 200
    /\ Len(resp.receitas_encontradas) < Len(resp.data.ids)
    /\ EmptyOrZero

\* the name-to-total mapping of a list of summed ingredients
AsMap(out) ==
    [n \in {out[k].NomeIngrediente : k \in DOMAIN out} |->
        LET k == CHOOSE j \in DOMAIN out : out[j].NomeIngrediente = n
        IN  out[k].QuantidadeTotal]

\* two results merged by adding the totals of equal names
MergeMaps(a, b) ==
    [n \in DOMAIN a \cup DOMAIN b |-> get(a, n, 0) + get(b, n, 0)]

\* the lists split in two, each part summed, the two results merged
SplitMerged(rs, k) ==
    MergeMaps(AsMap(somar_ingredientes(SubSeq(rs, 1, k))),
              AsMap(somar_ingredientes(SubSeq(rs, k + 1, Len(rs)))))

Perms(n) == {p \in [1..n -> 1..n] : \A i, j \in 1..n : p[i] = p[j] => i = j}

Abs(x) == IF x < 0 THEN -x ELSE x

IsSummed == resp.op = "ingredientes" /\ resp.status = 200

\* the result does not depend on the order of the recipes, and holds each
\* ingredient name of the recipes once, in the order of the strings
OrderAndNames(rs, out) ==
    /\ \A p \in Perms(Len(rs)) :
        somar_ingredientes([k \in 1..Len(rs) |-> rs[p[k]]]) = out
    /\ \A k \in 1..(Len(out) - 1) :
        StrLess(out[k].NomeIngrediente, out[k + 1].NomeIngrediente)
    /\ {out[k].NomeIngrediente : k \in DOMAIN out} =
        UNION {{i.NomeIngrediente : i \in Range(get(r, "Ingredientes", <<>>))} :
               r \in Range(rs)}

====
